---- MODULE Spec2Model ----
(***************************************************************************)
(* The Character aggregate of src/domain/Character.js: an immutable value  *)
(* object over four sub-records, its copy-on-write transforms, its target  *)
(* merge, its comparator and its two deserializers.                        *)
(*                                                                         *)
(* Instances live on two heaps so that reference identity is observable:   *)
(* heap holds the Character instances, objs the sub-record instances. An   *)
(* address is an index into the heap; a JavaScript value is a record       *)
(* tagged by its type in field t.                                          *)
(***************************************************************************)
EXTENDS Integers, Sequences, FiniteSets, TLC

VARIABLES heap,  \* Seq of Character instances, address = index
          objs,  \* Seq of sub-record instances, address = index
          root,  \* root[a]: the address of the Character a was derived from
          call   \* the last call: its name, receiver, argument and outcome

vars == <<heap, objs, root, call>>

\* ------------------------------------------------------------------ bounds
MaxHeap == 3

\* ----------------------------------------------------- JavaScript values
Null == [t |-> "null"]
Undefined == [t |-> "undefined"]
Ref(a) == [t |-> "object", a |-> a]
Num(n) == [t |-> "number", n |-> n]
Str(s) == [t |-> "string", s |-> s]
Bool(b) == [t |-> "boolean", b |-> b]

\* ToBoolean: what `if (x)`, `x ? a : b` and `x || y` test
Truthy(v) ==
  CASE v.t = "object" -> TRUE
    [] v.t \in {"plan", "json", "array", "character"} -> TRUE
    [] v.t = "number" -> v.n # 0
    [] v.t = "string" -> v.s # ""
    [] v.t = "boolean" -> v.b
    [] OTHER -> FALSE

\* the falsy values a caller can pass
Falsy == {Null, Undefined, Num(0), Str(""), Bool(FALSE)}

\* an OptimizationPlan: a name, its tuning (v) and where the instance was made
Plan(name, v, src) == [t |-> "plan", name |-> name, v |-> v, src |-> src]

\* ------------------------------------------- plain objects (property bags)
\* An object is the sequence of its own properties <<key, value>>, held in
\* own-property order: array-index keys in ascending numeric order first, then
\* the other string keys in insertion order.
ArrayIndex(k) ==
  CASE k = "1" -> 1
    [] k = "2" -> 2
    [] OTHER -> -1

IsArrayIndex(k) == ArrayIndex(k) >= 0

EmptyObject == <<>>

HasKey(o, k) == \E i \in 1..Len(o) : o[i][1] = k

Get(o, k) ==
  IF HasKey(o, k)
    THEN o[CHOOSE i \in 1..Len(o) : o[i][1] = k][2]
    ELSE Undefined

\* number of leading properties whose key is an array index below that of k
IndexSlot(o, k) ==
  Cardinality({i \in 1..Len(o) :
    IsArrayIndex(o[i][1]) /\ ArrayIndex(o[i][1]) < ArrayIndex(k)})

\* o[k] = v
Put(o, k, v) ==
  IF HasKey(o, k)
    THEN [i \in 1..Len(o) |-> IF o[i][1] = k THEN <<k, v>> ELSE o[i]]
    ELSE IF IsArrayIndex(k)
      THEN LET n == IndexSlot(o, k)
           IN SubSeq(o, 1, n) \o <<<<k, v>>>> \o SubSeq(o, n + 1, Len(o))
      ELSE Append(o, <<k, v>>)

RECURSIVE ObjectAssign(_, _)
\* Object.assign(target, source): copies source's own properties in order
ObjectAssign(target, source) ==
  IF source = <<>>
    THEN target
    ELSE ObjectAssign(Put(target, Head(source)[1], Head(source)[2]), Tail(source))

ObjectValues(o) == [i \in 1..Len(o) |-> o[i][2]]

RECURSIVE groupByKey(_)
\* groupByKey(arr, target => target.name): an object holding each item under
\* its name, a later item replacing an earlier one of the same name
groupByKey(arr) ==
  IF arr = <<>>
    THEN EmptyObject
    ELSE LET init == SubSeq(arr, 1, Len(arr) - 1)
             item == arr[Len(arr)]
         IN Put(groupByKey(init), item.name, item)

\* ------------------------------------------------------------- instances
\* a Character instance: the five fields the constructor assigns
Character(baseID, defaultSettings, gameSettings, playerValues, optimizerSettings) ==
  [baseID |-> baseID,
   defaultSettings |-> defaultSettings,
   gameSettings |-> gameSettings,
   playerValues |-> playerValues,
   optimizerSettings |-> optimizerSettings]

\* a sub-record instance: its class and its own fields
Obj(cls, f) == [cls |-> cls, f |-> f]

\* new GameSettings(name, avatarUrl, tags, description)
GameSettings(name, avatarUrl, tags, description) ==
  Obj("GameSettings",
      [name |-> name, avatarUrl |-> avatarUrl, tags |-> tags,
       description |-> description])

\* new PlayerValues(level, ..., galacticPower, ...): the power is the one field
\* Character reads
PlayerValues(level, galacticPower) ==
  Obj("PlayerValues", [level |-> level, galacticPower |-> galacticPower])

\* new OptimizerSettings(target, targets, minimumModDots, sliceMods, isLocked)
OptimizerSettings(target, targets, minimumModDots, sliceMods, isLocked) ==
  Obj("OptimizerSettings",
      [target |-> target, targets |-> targets, minimumModDots |-> minimumModDots,
       sliceMods |-> sliceMods, isLocked |-> isLocked])

\* a catalog record: its default targets
CharacterSettings(targets) == Obj("CharacterSettings", [targets |-> targets])

IsInstance(o, v, cls) == v.t = "object" /\ o[v.a].cls = cls

\* ---------------------------------------------------------------- catalog
BaseIDs == {"VADER", "REY"}

\* the address of the catalog record of VADER; REY has no catalog record
CatalogAddr == 1

CatalogTargets == <<Plan("A", 0, "catalog"), Plan("B", 0, "catalog")>>

\* characterSettings[baseID]
characterSettings(baseID) ==
  IF baseID = "VADER" THEN Ref(CatalogAddr) ELSE Undefined

\* ------------------------------------------------------ OptimizerSettings
RECURSIVE Filter(_, _)
Filter(s, name) ==
  IF s = <<>>
    THEN <<>>
    ELSE IF Head(s).name = name
      THEN Filter(Tail(s), name)
      ELSE <<Head(s)>> \o Filter(Tail(s), name)

\* optimizerSettings.withTarget(target): the fields of the settings it returns
OSwithTarget(f, target) ==
  IF target.t = "plan"
    THEN [f EXCEPT
            !.target = target,
            !.targets = ObjectValues(Put(groupByKey(f.targets), target.name, target))]
    ELSE [f EXCEPT !.target = target]

\* optimizerSettings.withTargetOverrides(targets)
OSwithTargetOverrides(f, targets) == [f EXCEPT !.targets = targets]

\* optimizerSettings.withDeletedTarget(targetName)
OSwithDeletedTarget(f, targetName) ==
  [f EXCEPT !.targets = Filter(f.targets, targetName)]

\* ------------------------------------------------------ call outcomes
\* the outcome of a call: the two heaps after it, the Character it returns
\* (0: none), whether it threw, and what else the claims observe of it
Outcome(h, o, ret, thrown, out) ==
  [heap |-> h, objs |-> o, ret |-> ret, thrown |-> thrown, out |-> out]

Throw == Outcome(heap, objs, 0, TRUE, Undefined)

\* new Character(...): a fresh frozen instance; an undefined argument takes the
\* parameter's default, null
Default(v) == IF v = Undefined THEN Null ELSE v

New(o, baseID, defaultSettings, gameSettings, playerValues, optimizerSettings, out) ==
  Outcome(
    Append(heap, Character(baseID, Default(defaultSettings), Default(gameSettings),
                           Default(playerValues), Default(optimizerSettings))),
    o, Len(heap) + 1, FALSE, out)

\* Object.assign({}, v): a plain object holding v's own fields
ShallowCopy(v) ==
  IF v.t = "object" THEN Obj("Object", objs[v.a].f) ELSE Obj("Object", <<>>)

\* ------------------------------------------------------------- transforms
clone(self) ==
  LET c == heap[self]
      o == objs \o <<ShallowCopy(c.playerValues), ShallowCopy(c.optimizerSettings)>>
  IN New(o, c.baseID, c.defaultSettings, c.gameSettings,
         Ref(Len(objs) + 1), Ref(Len(objs) + 2), Undefined)

withDefaultSettings(self, defaultSettings) ==
  LET c == heap[self]
  IN IF Truthy(defaultSettings)
       THEN New(objs, c.baseID, defaultSettings, c.gameSettings, c.playerValues,
                c.optimizerSettings, Undefined)
       ELSE Outcome(heap, objs, self, FALSE, Undefined)

withGameSettings(self, gameSettings) ==
  LET c == heap[self]
  IN IF Truthy(gameSettings)
       THEN New(objs, c.baseID, c.defaultSettings, gameSettings, c.playerValues,
                c.optimizerSettings, Undefined)
       ELSE Outcome(heap, objs, self, FALSE, Undefined)

\* withPlayerValues without its presence test
withPlayerValuesUnguarded(self, playerValues) ==
  LET c == heap[self]
  IN New(objs, c.baseID, c.defaultSettings, c.gameSettings, playerValues,
         c.optimizerSettings, Undefined)

withPlayerValues(self, playerValues) ==
  LET c == heap[self]
  IN IF Truthy(playerValues)
       THEN New(objs, c.baseID, c.defaultSettings, c.gameSettings, playerValues,
                c.optimizerSettings, Undefined)
       ELSE Outcome(heap, objs, self, FALSE, Undefined)

withOptimizerSettings(self, optimizerSettings) ==
  LET c == heap[self]
  IN IF Truthy(optimizerSettings)
       THEN New(objs, c.baseID, c.defaultSettings, c.gameSettings, c.playerValues,
                optimizerSettings, Undefined)
       ELSE Outcome(heap, objs, self, FALSE, Undefined)

\* characterSettings[baseID].targets.find(target => target.name === targetName)
find(targets, targetName) ==
  IF \E i \in 1..Len(targets) : targets[i].name = targetName
    THEN targets[CHOOSE i \in 1..Len(targets) :
                   /\ targets[i].name = targetName
                   /\ \A j \in 1..(i - 1) : targets[j].name # targetName]
    ELSE Undefined

\* the lookup taking the first default target, whatever its name
ResetTargetArgFirst(baseID, targetName) ==
  IF Truthy(characterSettings(baseID))
    THEN objs[characterSettings(baseID).a].f.targets[1]
    ELSE Null

\* the argument withResetTarget hands to optimizerSettings.withTarget
ResetTargetArg(baseID, targetName) ==
  IF Truthy(characterSettings(baseID))
    THEN find(objs[characterSettings(baseID).a].f.targets, targetName)
    ELSE Null

withResetTarget(self, targetName) ==
  LET c == heap[self]
      target == ResetTargetArg(c.baseID, targetName)
  IN IF IsInstance(objs, c.optimizerSettings, "OptimizerSettings")
       THEN New(Append(objs, Obj("OptimizerSettings",
                                 OSwithTarget(objs[c.optimizerSettings.a].f, target))),
                c.baseID, c.defaultSettings, c.gameSettings, c.playerValues,
                Ref(Len(objs) + 1), target)
       ELSE Throw

\* characterSettings[baseID] ? characterSettings[baseID].targets : []
DefaultTargets(baseID) ==
  IF Truthy(characterSettings(baseID))
    THEN objs[characterSettings(baseID).a].f.targets
    ELSE <<>>

\* withResetTargets laying the defaults over the player targets instead of
\* replacing them
withResetTargetsKeepingCustom(self) ==
  LET c == heap[self]
  IN IF IsInstance(objs, c.optimizerSettings, "OptimizerSettings")
       THEN LET f == objs[c.optimizerSettings.a].f
                merged == ObjectValues(ObjectAssign(groupByKey(f.targets),
                                                    groupByKey(DefaultTargets(c.baseID))))
            IN New(Append(objs, Obj("OptimizerSettings",
                                    OSwithTargetOverrides(f, merged))),
                   c.baseID, c.defaultSettings, c.gameSettings, c.playerValues,
                   Ref(Len(objs) + 1), Undefined)
       ELSE Throw

withResetTargets(self) ==
  LET c == heap[self]
  IN IF IsInstance(objs, c.optimizerSettings, "OptimizerSettings")
       THEN New(Append(objs, Obj("OptimizerSettings",
                                 OSwithTargetOverrides(objs[c.optimizerSettings.a].f,
                                                       DefaultTargets(c.baseID)))),
                c.baseID, c.defaultSettings, c.gameSettings, c.playerValues,
                Ref(Len(objs) + 1), Undefined)
       ELSE Throw

\* withDeletedTarget writing the new settings into the receiver
withDeletedTargetInPlace(self, targetName) ==
  LET c == heap[self]
  IN IF IsInstance(objs, c.optimizerSettings, "OptimizerSettings")
       THEN Outcome([heap EXCEPT ![self].optimizerSettings = Ref(Len(objs) + 1)],
                    Append(objs, Obj("OptimizerSettings",
                                     OSwithDeletedTarget(objs[c.optimizerSettings.a].f,
                                                         targetName))),
                    self, FALSE, Undefined)
       ELSE Throw

withDeletedTarget(self, targetName) ==
  LET c == heap[self]
  IN IF IsInstance(objs, c.optimizerSettings, "OptimizerSettings")
       THEN New(Append(objs, Obj("OptimizerSettings",
                                 OSwithDeletedTarget(objs[c.optimizerSettings.a].f,
                                                     targetName))),
                c.baseID, c.defaultSettings, c.gameSettings, c.playerValues,
                Ref(Len(objs) + 1), Undefined)
       ELSE Throw

\* ------------------------------------------------------------ state machine
\* the sub-records the caller holds before the first call
GameSettingsAddr == 2
PlayerValuesAddr == 3
OptimizerSettingsAddr == 4
OtherOptimizerSettingsAddr == 5

Pool ==
  <<CharacterSettings(CatalogTargets),
    GameSettings("Darth Vader", "vader.png", <<>>, ""),
    PlayerValues(85, 100),
    OptimizerSettings(Plan("A", 1, "player"),
                      <<Plan("A", 1, "player"), Plan("C", 1, "player")>>,
                      1, FALSE, FALSE),
    OptimizerSettings(Plan("B", 1, "player"), <<Plan("B", 1, "player")>>,
                      5, TRUE, FALSE)>>

TargetNames == {"A", "B", "C"}

NoCall ==
  [op |-> "new", self |-> 0, arg |-> Undefined, ret |-> 1, thrown |-> FALSE,
   out |-> Undefined]

\* one Character built by the constructor from the caller's sub-records: known
\* to the catalog or not, with or without optimizer settings, the other three
\* sub-records all absent or all present
Init ==
  /\ objs = Pool
  /\ \E baseID \in BaseIDs,
        os \in {Null, Ref(OptimizerSettingsAddr)},
        rest \in BOOLEAN :
       heap = <<Character(baseID,
                          IF rest THEN Ref(CatalogAddr) ELSE Null,
                          IF rest THEN Ref(GameSettingsAddr) ELSE Null,
                          IF rest THEN Ref(PlayerValuesAddr) ELSE Null,
                          os)>>
  /\ root = <<1>>
  /\ call = NoCall

\* a call of a method of the instance at self, with its outcome r
Do(op, self, arg, r) ==
  /\ Len(r.heap) <= MaxHeap
  /\ heap' = r.heap
  /\ objs' = r.objs
  /\ root' = IF Len(r.heap) > Len(heap)
              THEN Append(root, IF self = 0 THEN Len(heap) + 1 ELSE root[self])
              ELSE root
  /\ call' = [op |-> op, self |-> self, arg |-> arg, ret |-> r.ret,
              thrown |-> r.thrown, out |-> r.out]

\* the caller threads one Character through its calls: the receiver of a call
\* is the instance the last call that returned one returned
Instances == {Len(heap)}

Clone == \E self \in Instances : Do("clone", self, Undefined, clone(self))

WithDefaultSettings ==
  \E self \in Instances, x \in Falsy \cup {Ref(CatalogAddr)} :
    Do("withDefaultSettings", self, x, withDefaultSettings(self, x))

WithGameSettings ==
  \E self \in Instances, x \in Falsy \cup {Ref(GameSettingsAddr)} :
    Do("withGameSettings", self, x, withGameSettings(self, x))

WithPlayerValues ==
  \E self \in Instances, x \in Falsy \cup {Ref(PlayerValuesAddr)} :
    Do("withPlayerValues", self, x, withPlayerValues(self, x))

WithOptimizerSettings ==
  \E self \in Instances,
     x \in Falsy \cup {Ref(OptimizerSettingsAddr), Ref(OtherOptimizerSettingsAddr)} :
    Do("withOptimizerSettings", self, x, withOptimizerSettings(self, x))

WithResetTarget ==
  \E self \in Instances, name \in TargetNames :
    Do("withResetTarget", self, Str(name), withResetTarget(self, name))

WithResetTargets ==
  \E self \in Instances : Do("withResetTargets", self, Undefined, withResetTargets(self))

WithDeletedTarget ==
  \E self \in Instances, name \in TargetNames :
    Do("withDeletedTarget", self, Str(name), withDeletedTarget(self, name))

Next ==
  \/ Clone
  \/ WithDefaultSettings
  \/ WithGameSettings
  \/ WithPlayerValues
  \/ WithOptimizerSettings
  \/ WithResetTarget
  \/ WithResetTargets
  \/ WithDeletedTarget

Spec == Init /\ [][Next]_vars

NamesOf(list) == {list[i].name : i \in 1..Len(list)}

\* ---------------------------------------------------- claims: transforms
\* the field each with-transform replaces
WithField ==
  [withDefaultSettings |-> "defaultSettings",
   withGameSettings |-> "gameSettings",
   withPlayerValues |-> "playerValues",
   withOptimizerSettings |-> "optimizerSettings"]

SubRecords == {"defaultSettings", "gameSettings", "playerValues", "optimizerSettings"}

\* C1: each of the four with-transforms, given a truthy x, returns a new
\* Character whose field is x and whose baseID and other three fields are the
\* receiver's; given a falsy x it returns the receiver itself; it never throws
C1_WithField ==
  call.op \in DOMAIN WithField =>
    LET c == heap[call.self]
        field == WithField[call.op]
    IN /\ ~call.thrown
       /\ IF Truthy(call.arg)
            THEN /\ call.ret # call.self
                 /\ heap[call.ret][field] = call.arg
                 /\ heap[call.ret].baseID = c.baseID
                 /\ \A g \in SubRecords \ {field} : heap[call.ret][g] = c[g]
            ELSE call.ret = call.self

\* a with-transform has replaced a present sub-record by another one
C1_Witness ==
  /\ call.op = "withOptimizerSettings"
  /\ Truthy(call.arg)
  /\ Truthy(heap[call.self].optimizerSettings)
  /\ heap[call.self].optimizerSettings # call.arg
  /\ heap[call.ret].optimizerSettings = call.arg

\* C3: the Character withResetTargets returns holds exactly the catalog
\* defaults of its baseID as its named targets, none when the catalog has no
\* entry: no player-only target and no player override survives
C3_ResetTargets ==
  (call.op = "withResetTargets" /\ ~call.thrown) =>
    LET r == heap[call.ret]
        named == objs[r.optimizerSettings.a].f.targets
    IN /\ call.ret # call.self
       /\ IF r.baseID = "VADER"
            THEN named = CatalogTargets
            ELSE named = <<>>
       /\ \A i \in 1..Len(named) : named[i].src = "catalog"

\* defaults {A, B} and player targets {A', C} have been reset
C3_Witness ==
  /\ call.op = "withResetTargets"
  /\ ~call.thrown
  /\ heap[call.self].baseID = "VADER"
  /\ NamesOf(objs[heap[call.self].optimizerSettings.a].f.targets) = {"A", "C"}
  /\ \E i \in 1..Len(objs[heap[call.self].optimizerSettings.a].f.targets) :
       objs[heap[call.self].optimizerSettings.a].f.targets[i].src = "player"

\* C8: withResetTarget(targetName) returns a new Character whose optimizer
\* settings are the receiver's with the target set to the catalog default of
\* that name, an absent target when the catalog has no entry or no such
\* name; the other four fields are the receiver's
C8_ResetTarget ==
  (call.op = "withResetTarget" /\ ~call.thrown) =>
    LET c == heap[call.self]
        r == heap[call.ret]
        named == {i \in 1..Len(CatalogTargets) : CatalogTargets[i].name = call.arg.s}
    IN /\ call.ret # call.self
       /\ IF c.baseID = "VADER" /\ named # {}
            THEN call.out \in {CatalogTargets[i] : i \in named}
            ELSE call.out \in {Null, Undefined}
       /\ r.optimizerSettings # c.optimizerSettings
       /\ objs[r.optimizerSettings.a] =
            Obj("OptimizerSettings",
                OSwithTarget(objs[c.optimizerSettings.a].f, call.out))
       /\ r.baseID = c.baseID
       /\ \A g \in SubRecords \ {"optimizerSettings"} : r[g] = c[g]

\* a player override of a catalog default has been reset to that default
C8_Witness ==
  /\ call.op = "withResetTarget"
  /\ ~call.thrown
  /\ call.out = Plan("A", 0, "catalog")
  /\ Plan("A", 1, "player") \in
       {objs[heap[call.self].optimizerSettings.a].f.targets[i] :
          i \in 1..Len(objs[heap[call.self].optimizerSettings.a].f.targets)}
  /\ objs[heap[call.ret].optimizerSettings.a].f.target = Plan("A", 0, "catalog")

\* C10: no call changes an existing instance, and every instance derived from
\* a Character has that Character's baseID
C10_Immutable ==
  [][/\ Len(heap') >= Len(heap)
     /\ \A a \in 1..Len(heap) : heap'[a] = heap[a]
     /\ \A a \in 1..Len(heap') : heap'[a].baseID = heap'[root'[a]].baseID]_vars

\* two transforms have been applied in sequence, each returning a new instance
C10_Witness ==
  /\ Len(heap) >= 3
  /\ call.op \in {"withDeletedTarget", "withResetTarget", "withResetTargets", "clone"}
  /\ ~call.thrown
  /\ call.ret = Len(heap)

\* ------------------------------------------------------------ target view
Array(items) == [t |-> "array", items |-> items]

\* whether a sub-record has an own field of that name
HasField(v, name) == name \in DOMAIN objs[v.a].f

targets(self) ==
  LET c == heap[self]
  IN IF c.optimizerSettings.t # "object"
       THEN Throw
       ELSE IF ~HasField(c.optimizerSettings, "targets")
                 THEN Throw
                 ELSE LET defaultTargets == groupByKey(DefaultTargets(c.baseID))
                          playerTargets ==
                            groupByKey(objs[c.optimizerSettings.a].f.targets)
                      IN Outcome(heap, objs, 0, FALSE,
                           Array(ObjectValues(
                             ObjectAssign(ObjectAssign(EmptyObject, defaultTargets),
                                          playerTargets))))

defaultTarget(self) ==
  LET all == targets(self)
  IN IF all.thrown
       THEN Throw
       ELSE Outcome(heap, objs, 0, FALSE,
              IF Len(all.out.items) > 0 /\ Truthy(all.out.items[1])
                THEN all.out.items[1]
                ELSE Plan("unnamed", 0, "new"))

\* ---- the target view of one Character, over every list of player targets
MaxTargets == 3

PlayerNames == {"A", "B", "C", "1", "2"}

PlayerPlans == {Plan(n, 1, "player") : n \in PlayerNames}

PlayerTargetLists ==
  UNION {[1..n -> PlayerPlans] : n \in 0..MaxTargets}

InitTargets ==
  /\ \E baseID \in BaseIDs, mine \in PlayerTargetLists, present \in BOOLEAN :
       /\ objs = <<CharacterSettings(CatalogTargets),
                   OptimizerSettings(IF mine = <<>> THEN Null ELSE mine[1], mine,
                                     1, FALSE, FALSE)>>
       /\ heap = <<Character(baseID, Null, Null, Null,
                             IF present THEN Ref(2) ELSE Null)>>
  /\ root = <<1>>
  /\ call = NoCall

Targets == \E self \in Instances : Do("targets", self, Undefined, targets(self))

DefaultTarget ==
  \E self \in Instances : Do("defaultTarget", self, Undefined, defaultTarget(self))

NextTargets == Targets \/ DefaultTarget

SpecTargets == InitTargets /\ [][NextTargets]_vars

\* -------------------------------------------------------------- compareGP
\* the UTF-16 code units of the baseIDs that are compared
CodeUnits(id) ==
  CASE id = "REY" -> <<82, 69, 89>>
    [] id = "REYS" -> <<82, 69, 89, 83>>
    [] id = "VADER" -> <<86, 65, 68, 69, 82>>
    [] OTHER -> <<>>

RECURSIVE Collate(_, _)
\* the order of two strings of upper-case ASCII letters: -1, 0 or 1
Collate(a, b) ==
  IF a = <<>> /\ b = <<>> THEN 0
  ELSE IF a = <<>> THEN -1
  ELSE IF b = <<>> THEN 1
  ELSE IF Head(a) < Head(b) THEN -1
  ELSE IF Head(a) > Head(b) THEN 1
  ELSE Collate(Tail(a), Tail(b))

\* a.localeCompare(b)
localeCompare(a, b) == Collate(CodeUnits(a), CodeUnits(b))

Char(a) == [t |-> "character", a |-> a]

NaN == [t |-> "NaN"]

\* v.galacticPower of a sub-record v
galacticPower(v) ==
  IF HasField(v, "galacticPower") THEN Num(objs[v.a].f.galacticPower) ELSE Undefined

\* compareGP ordering by ascending power
compareGPAscending(self, that) ==
  LET mine == galacticPower(heap[self].playerValues)
      theirs == galacticPower(heap[that].playerValues)
  IN Outcome(heap, objs, 0, FALSE,
       IF theirs = mine
         THEN Num(localeCompare(heap[self].baseID, heap[that].baseID))
         ELSE Num(mine.n - theirs.n))

compareGP(self, that) ==
  IF heap[that].playerValues.t # "object" \/ heap[self].playerValues.t # "object"
    THEN Throw
    ELSE LET mine == galacticPower(heap[self].playerValues)
             theirs == galacticPower(heap[that].playerValues)
         IN Outcome(heap, objs, 0, FALSE,
              IF theirs = mine
                THEN Num(localeCompare(heap[self].baseID, heap[that].baseID))
                ELSE IF theirs = Undefined \/ mine = Undefined
                  THEN NaN
                  ELSE Num(theirs.n - mine.n))

\* ---- three Characters of any baseID and power, compared pairwise
MaxGP == 2

RosterIDs == {"REY", "REYS", "VADER"}

InitGP ==
  /\ objs = [g \in 1..(MaxGP + 1) |-> PlayerValues(85, 100 * (g - 1))]
  /\ \E ids \in [1..3 -> RosterIDs], gps \in [1..3 -> 1..(MaxGP + 1)] :
       heap = [i \in 1..3 |-> Character(ids[i], Null, Null, Ref(gps[i]), Null)]
  /\ root = <<1, 2, 3>>
  /\ call = NoCall

CompareGP ==
  \E self \in 1..Len(heap), that \in 1..Len(heap) :
    Do("compareGP", self, Char(that), compareGP(self, that))

NextGP == CompareGP

SpecGP == InitGP /\ [][NextGP]_vars

\* ---------------------------------------------------------- serialization
Json(f) == [t |-> "json", f |-> f]

JsonObject(props) == [t |-> "json", props |-> props]

\* x.serialize() of a sub-record x: its fields, without its class
SubSerialize(o) == Json(o.f)

\* X.deserialize(json) of the sub-record class X
SubDeserialize(cls, json) == Obj(cls, json.f)

\* GameSettings.deserialize(json): the four constructor arguments; the payload's
\* baseID is not one of them
GameSettingsDeserialize(json) ==
  GameSettings(json.f.name, json.f.avatarUrl, json.f.tags, json.f.description)

\* whether x.serialize exists: a plain object copy has no methods
HasMethods(v) == v.t = "object" /\ objs[v.a].cls # "Object"

\* serialize writing null under the keys of absent default and game settings
serializeNullKeys(self) ==
  LET c == heap[self]
      Ser(v) == IF Truthy(v) THEN SubSerialize(objs[v.a]) ELSE Null
  IN Outcome(heap, objs, 0, FALSE,
       JsonObject(
         Put(Put(Put(Put(Put(EmptyObject, "baseID", Str(c.baseID)),
                         "defaultSettings", Ser(c.defaultSettings)),
                     "gameSettings", Ser(c.gameSettings)),
                 "playerValues", Ser(c.playerValues)),
             "optimizerSettings", Ser(c.optimizerSettings))))

serialize(self) ==
  LET c == heap[self]
      Ser(v) == IF Truthy(v) THEN SubSerialize(objs[v.a]) ELSE Null
      j1 == Put(EmptyObject, "baseID", Str(c.baseID))
      j2 == IF Truthy(c.defaultSettings)
              THEN Put(j1, "defaultSettings", Ser(c.defaultSettings))
              ELSE j1
      j3 == IF Truthy(c.gameSettings)
              THEN Put(j2, "gameSettings", Ser(c.gameSettings))
              ELSE j2
      j4 == Put(j3, "playerValues", Ser(c.playerValues))
      j5 == Put(j4, "optimizerSettings", Ser(c.optimizerSettings))
  IN IF \E g \in {"defaultSettings", "gameSettings", "playerValues",
                  "optimizerSettings"} : Truthy(c[g]) /\ ~HasMethods(c[g])
       THEN Throw
       ELSE Outcome(heap, objs, 0, FALSE, JsonObject(j5))

\* Object.assign(characterJson.gameSettings, {baseID: characterJson.baseID})
GameSettingsPayload(characterJson) ==
  Json([k \in DOMAIN Get(characterJson, "gameSettings").f \cup {"baseID"} |->
          IF k = "baseID"
            THEN Get(characterJson, "baseID")
            ELSE Get(characterJson, "gameSettings").f[k]])

\* deserialize never reading the game settings
deserializeSkippingGameSettings(self, characterJson) ==
  LET pv == Get(characterJson, "playerValues")
      os == Get(characterJson, "optimizerSettings")
      ds == Get(characterJson, "defaultSettings")
      o1 == IF Truthy(ds)
              THEN Append(objs, SubDeserialize("CharacterSettings", ds))
              ELSE objs
      o2 == Append(o1, SubDeserialize("PlayerValues", pv))
      o3 == Append(o2, SubDeserialize("OptimizerSettings", os))
  IN IF pv.t # "json" \/ os.t # "json"
       THEN Throw
       ELSE New(o3, Get(characterJson, "baseID").s,
                IF Truthy(ds) THEN Ref(Len(o1)) ELSE Null,
                Null, Ref(Len(o2)), Ref(Len(o3)), Undefined)

\* Character.deserialize(characterJson); self is the instance whose serialized
\* form is read, kept for the claims only
deserialize(self, characterJson) ==
  LET pv == Get(characterJson, "playerValues")
      os == Get(characterJson, "optimizerSettings")
      ds == Get(characterJson, "defaultSettings")
      gs == Get(characterJson, "gameSettings")
      o1 == IF Truthy(ds)
              THEN Append(objs, SubDeserialize("CharacterSettings", ds))
              ELSE objs
      o2 == IF Truthy(gs)
              THEN Append(o1, GameSettingsDeserialize(GameSettingsPayload(characterJson)))
              ELSE o1
      o3 == Append(o2, SubDeserialize("PlayerValues", pv))
      o4 == Append(o3, SubDeserialize("OptimizerSettings", os))
  IN IF pv.t # "json" \/ os.t # "json"
       THEN Throw
       ELSE New(o4, Get(characterJson, "baseID").s,
                IF Truthy(ds) THEN Ref(Len(o1)) ELSE Null,
                IF Truthy(gs) THEN Ref(Len(o2)) ELSE Null,
                Ref(Len(o3)), Ref(Len(o4)),
                IF Truthy(gs) THEN GameSettingsPayload(characterJson) ELSE Undefined)

\* ---- one Character of any make-up, serialized and read back
SecondPlayerValuesAddr == 6

SerializedPool == Pool \o <<PlayerValues(50, 200)>>

InitSerialized ==
  /\ objs = SerializedPool
  /\ \E baseID \in BaseIDs,
        ds \in {Null, Ref(CatalogAddr)},
        gs \in {Null, Ref(GameSettingsAddr)},
        pv \in {Null, Ref(PlayerValuesAddr), Ref(SecondPlayerValuesAddr)},
        os \in {Null, Ref(OptimizerSettingsAddr), Ref(OtherOptimizerSettingsAddr)} :
       heap = <<Character(baseID, ds, gs, pv, os)>>
  /\ root = <<1>>
  /\ call = NoCall

Serialize ==
  /\ call.op = "new"
  /\ Do("serialize", 1, Undefined, serialize(1))

Deserialize ==
  /\ call.op = "serialize"
  /\ ~call.thrown
  /\ Do("deserialize", call.self, call.out, deserialize(call.self, call.out.props))

NextSerialized == Serialize \/ Deserialize

SpecSerialized == InitSerialized /\ [][NextSerialized]_vars

\* -------------------------------------------------------- legacy migration
\* OptimizationPlan.deserialize(planJson): a new plan, src telling which field
\* of the legacy record it was read from
PlanDeserialize(planJson, src) == Plan(planJson.f.name, planJson.f.v, src)

\* plan.rename(name): the same tuning under another name
rename(plan, name) == Plan(name, plan.v, "rename")

\* plan.equals(that): value equality, of the name and of the tuning
equals(plan, that) == plan.name = that.name /\ plan.v = that.v

\* mapObject(serializedNamedPlans, OptimizationPlan.deserialize)
mapObject(o) == [i \in 1..Len(o) |-> <<o[i][1], PlanDeserialize(o[i][2], "namedPlans")>>]

RECURSIVE ReconcileComparingAsIs(_, _)
\* the search comparing the selected plan without renaming it
ReconcileComparingAsIs(selectedTarget, namedPlans) ==
  IF namedPlans = <<>>
    THEN selectedTarget
    ELSE ReconcileComparingAsIs(
           IF equals(selectedTarget, Head(namedPlans))
             THEN Head(namedPlans)
             ELSE selectedTarget,
           Tail(namedPlans))

RECURSIVE Reconcile(_, _)
\* namedPlans.forEach(target => { if (selectedTarget.rename(target.name)
\* .equals(target)) selectedTarget = target })
Reconcile(selectedTarget, namedPlans) ==
  IF namedPlans = <<>>
    THEN selectedTarget
    ELSE Reconcile(
           IF equals(rename(selectedTarget, Head(namedPlans).name), Head(namedPlans))
             THEN Head(namedPlans)
             ELSE selectedTarget,
           Tail(namedPlans))

BlankAvatar == "//swgoh.gg/static/img/assets/blank-character.png"

deserializeVersionOneTwo(characterJson) ==
  LET serializedNamedPlans ==
        IF Truthy(characterJson.namedPlans)
          THEN characterJson.namedPlans.props
          ELSE Put(EmptyObject, "unnamed", characterJson.optimizationPlan)
      namedPlans == ObjectValues(mapObject(serializedNamedPlans))
      tentative == PlanDeserialize(characterJson.optimizationPlan, "optimizationPlan")
      selectedTarget ==
        IF "unnamed" = tentative.name
          THEN Reconcile(tentative, namedPlans)
          ELSE tentative
      gameSettings == GameSettings(characterJson.name, BlankAvatar, <<>>, "")
      playerValues == PlayerValues(characterJson.level, characterJson.galacticPower)
      optimizerSettings ==
        OptimizerSettings(selectedTarget, namedPlans,
                          IF Truthy(characterJson.useOnly5DotMods) THEN 5 ELSE 1,
                          Truthy(characterJson.sliceMods),
                          Truthy(characterJson.isLocked))
      catalogued == characterSettings(characterJson.baseID)
  IN New(objs \o <<gameSettings, playerValues, optimizerSettings>>,
         characterJson.baseID,
         IF Truthy(catalogued) THEN catalogued ELSE Null,
         Ref(Len(objs) + 1), Ref(Len(objs) + 2), Ref(Len(objs) + 3),
         Undefined)

\* ---- every legacy record of up to MaxPlans named plans
MaxPlans == 2

PlanNames == {"unnamed", "X", "Y"}

PlanJsons == {Json([name |-> n, v |-> v]) : n \in PlanNames, v \in {0, 1}}

PlanKeys == {"X", "Y", "1"}

KeyLists ==
  {ks \in UNION {[1..n -> PlanKeys] : n \in 0..MaxPlans} :
     \A i, j \in 1..Len(ks) : i # j => ks[i] # ks[j]}

RECURSIVE FromEntries(_, _)
\* the object a JSON text with these keys and values parses to
FromEntries(ks, vs) ==
  IF ks = <<>>
    THEN EmptyObject
    ELSE Put(FromEntries(SubSeq(ks, 1, Len(ks) - 1), SubSeq(vs, 1, Len(vs) - 1)),
             ks[Len(ks)], vs[Len(vs)])

NamedPlanObjects ==
  UNION {{JsonObject(FromEntries(ks, vs)) : vs \in [1..Len(ks) -> PlanJsons]} :
           ks \in KeyLists}

LegacyJson(baseID, optimizationPlan, namedPlans, useOnly5DotMods) ==
  [t |-> "json", baseID |-> baseID, name |-> "Darth Vader", level |-> 85,
   galacticPower |-> 100, optimizationPlan |-> optimizationPlan,
   namedPlans |-> namedPlans, useOnly5DotMods |-> useOnly5DotMods,
   sliceMods |-> Undefined, isLocked |-> Undefined]

InitLegacy ==
  /\ objs = <<CharacterSettings(CatalogTargets)>>
  /\ heap = <<>>
  /\ root = <<>>
  /\ \E baseID \in BaseIDs, plan \in PlanJsons,
        named \in NamedPlanObjects \cup {Undefined},
        only5 \in {Undefined, Bool(TRUE)} :
       call = [op |-> "json", self |-> 0,
               arg |-> LegacyJson(baseID, plan, named, only5),
               ret |-> 0, thrown |-> FALSE, out |-> Undefined]

DeserializeVersionOneTwo ==
  /\ call.op = "json"
  /\ Do("deserializeVersionOneTwo", 0, call.arg, deserializeVersionOneTwo(call.arg))

NextLegacy == DeserializeVersionOneTwo

SpecLegacy == InitLegacy /\ [][NextLegacy]_vars

\* ------------------------------------------------------- claims: targets
\* the player targets held by the optimizer settings of an instance
PlayerTargetsOf(self) == objs[heap[self].optimizerSettings.a].f.targets

\* C2: targets() returns one target per distinct name of the catalog defaults
\* and the player targets; for a name in both it returns the player's target,
\* at the position the catalog default of that name had
C2_MergeOverride ==
  (call.op = "targets" /\ ~call.thrown) =>
    LET D == DefaultTargets(heap[call.self].baseID)
        P == PlayerTargetsOf(call.self)
        R == call.out.items
    IN /\ NamesOf(R) = NamesOf(D) \cup NamesOf(P)
       /\ Len(R) = Cardinality(NamesOf(R))
       /\ \A i \in 1..Len(R) :
            R[i].name \in NamesOf(P) => R[i].src = "player"
       /\ \A i \in 1..Len(D) :
            D[i].name \in NamesOf(P) =>
              /\ i <= Len(R)
              /\ R[i].name = D[i].name

\* C4: defaultTarget() never fails and never returns an absent target; it is
\* named "unnamed" when there is no catalog entry and no player target, and is
\* the first element of targets() otherwise
C4_DefaultTargetTotal ==
  call.op = "defaultTarget" =>
    /\ ~call.thrown
    /\ call.out.t = "plan"
    /\ LET c == heap[call.self]
           all == targets(call.self)
       IN /\ ~all.thrown
          /\ IF all.out.items = <<>>
               THEN call.out.name = "unnamed"
               ELSE call.out = all.out.items[1]

\* ----------------------------------------------------- claims: compareGP
Sign(n) == IF n < 0 THEN -1 ELSE IF n > 0 THEN 1 ELSE 0

Cmp(a, b) == compareGP(a, b).out.n

Power(a) == objs[heap[a].playerValues.a].f.galacticPower

FullyPopulated(c) == \A g \in SubRecords : c[g].t = "object"

\* C6: reading back the serialized form of a fully populated Character gives
\* a Character with the same baseID and value-equal sub-records, and the
\* baseID stamped on the game settings payload is that baseID
C6_RoundTrip ==
  (call.op = "deserialize" /\ FullyPopulated(heap[call.self])) =>
    /\ ~call.thrown
    /\ call.ret # call.self
    /\ LET c == heap[call.self]
           r == heap[call.ret]
       IN /\ r.baseID = c.baseID
          /\ \A g \in SubRecords :
               /\ r[g].t = "object"
               /\ objs[r[g].a] = objs[c[g].a]
          /\ call.out.f.baseID = Str(c.baseID)

\* a fully populated Character has been serialized and read back
C6_Witness ==
  /\ call.op = "deserialize"
  /\ FullyPopulated(heap[call.self])
  /\ heap[call.self].playerValues = Ref(SecondPlayerValuesAddr)
  /\ call.ret = 2

\* C9: the serialized form always has baseID, playerValues and
\* optimizerSettings; the last two hold null when the sub-record is not set;
\* defaultSettings and gameSettings are keys exactly when the sub-record is set
C9_SerializedShape ==
  (call.op = "serialize" /\ ~call.thrown) =>
    LET c == heap[call.self]
        j == call.out.props
    IN /\ HasKey(j, "baseID")
       /\ Get(j, "baseID") = Str(c.baseID)
       /\ \A g \in {"defaultSettings", "gameSettings"} :
            /\ HasKey(j, g) <=> c[g] # Null
            /\ c[g] # Null => Get(j, g) = SubSerialize(objs[c[g].a])
       /\ \A g \in {"playerValues", "optimizerSettings"} :
            /\ HasKey(j, g)
            /\ Get(j, g) = IF c[g] # Null THEN SubSerialize(objs[c[g].a]) ELSE Null

\* a Character with neither default settings nor player values has been
\* serialized
C9_Witness ==
  /\ call.op = "serialize"
  /\ ~call.thrown
  /\ heap[call.self].defaultSettings = Null
  /\ heap[call.self].playerValues = Null
  /\ heap[call.self].gameSettings # Null
  /\ heap[call.self].optimizerSettings # Null

\* ------------------------------------------------------ claims: migration
\* C5: when the legacy optimizationPlan is named "unnamed" and a named plan
\* has its tuning, the migrated selected target is such a named plan, an
\* element of the named targets; otherwise it is the optimizationPlan as read
C5_Reconciliation ==
  call.op = "deserializeVersionOneTwo" =>
    /\ ~call.thrown
    /\ LET tentative == Plan(call.arg.optimizationPlan.f.name,
                             call.arg.optimizationPlan.f.v, "optimizationPlan")
           settings == objs[heap[call.ret].optimizerSettings.a].f
           matching == {i \in 1..Len(settings.targets) :
                          settings.targets[i].v = tentative.v}
       IN IF tentative.name = "unnamed" /\ matching # {}
            THEN /\ settings.target \in {settings.targets[i] : i \in matching}
                 /\ settings.target.src = "namedPlans"
            ELSE settings.target = tentative

\* an unnamed selection has been replaced by the named plan X of its tuning,
\* past a named plan of another tuning
C5_Witness ==
  /\ call.op = "deserializeVersionOneTwo"
  /\ call.arg.optimizationPlan.f.name = "unnamed"
  /\ objs[heap[call.ret].optimizerSettings.a].f.target =
       Plan("X", call.arg.optimizationPlan.f.v, "namedPlans")
  /\ Len(objs[heap[call.ret].optimizerSettings.a].f.targets) = 2
  /\ \E i \in 1..2 :
       objs[heap[call.ret].optimizerSettings.a].f.targets[i].v #
         call.arg.optimizationPlan.f.v

====
